---- MODULE Spec2Model ----
(***************************************************************************)
(* A model of proxyserver.cpp: the epoll loop of one proxy instance, its   *)
(* fd_ctx records with their peer caches and reference counts, the UID     *)
(* index peer_sockets, the frame parser with its in-place header rewrite,  *)
(* and the control connection with its decay mode.                         *)
(*                                                                         *)
(* The handlers are written as operators over a record s holding the       *)
(* program state, so that the loops and the calls of the source compose    *)
(* in the order the source runs them; an action applies a whole handler.   *)
(***************************************************************************)
EXTENDS Integers, Sequences, FiniteSets, TLC

(***************************************************************************)
(* Bounds of the model.                                                    *)
(***************************************************************************)
\* peer connections the instance accepts in one run, and the frames their
\* peers write, over all connections: with the control connection and the
\* signal (Spec), without (SpecRoute), and with reads of any size (SpecStream)
NConn == 2
MaxSent == 3
NRoute == 3
MaxRouteSent == 4
NStream == 2
MaxStream == 4
\* the peers besides Src that write and close in SpecCache and SpecRefs, and
\* the frames the peers write in a run of SpecRefs
NBack == 2
MaxRefsSent == 3
\* the connections and the frames of a run of SpecOrder
NOrder == 2
MaxOrder == 5
\* the connections and the frames of a run of SpecBytes
NBytes == 2
MaxBytesSent == 3
\* TCP listeners getaddrinfo yields (server_sockets.size())
NumServers == 1
\* deliveries of SIGUSR1 in one run
MaxSignals == 2
\* control connections accepted in one run
MaxCtrl == 1

(***************************************************************************)
(* Program constants.                                                      *)
(***************************************************************************)
MAX_PEERS == 16
MAX_DESC_PER_MESSAGE == 256
\* sizeof(fd_ctx) with 4-byte int and 8-byte pointers: 4+4+1(+7)+(4(+4)+16*8)+4+4+4+1(+3)
SizeofFdCtx == 168
FDCTX_CLIENT_BUFSIZE == 4096 - SizeofFdCtx
\* sizeof(proxy_msg_header) - sizeof(proxy_msg_header_to_peer)
OUT_HEADER_OFFSET_ADJ == 8 - 6

\* the null pointer, and the faf_uid of a connection that has none
NULL == 0
NoUid == 0 - 1

(***************************************************************************)
(* Byte order conversions; a buffer is a sequence of bytes 0..255.         *)
(***************************************************************************)
\* (int) ntohl(word at offset off of b), offsets 0-based: the uint32_t value
\* converted to int, as in const int in_msg_size = ntohl(h->size)
ntohl(b, off) ==
    (IF b[off + 1] >= 128 THEN b[off + 1] - 256 ELSE b[off + 1]) * 16777216
    + b[off + 2] * 65536 + b[off + 3] * 256 + b[off + 4]

\* the 16-bit big-endian word at offset off of b
ntohs(b, off) == b[off + 1] * 256 + b[off + 2]

\* the four bytes of int v in network byte order (two's complement)
htonl(v) ==
    << (v \div 16777216) % 256, (v \div 65536) % 256, (v \div 256) % 256, v % 256 >>

\* the two bytes of v in network byte order
htons(v) == << (v \div 256) % 256, v % 256 >>

\* b with the bytes w stored at offset off
Store(b, off, w) ==
    [i \in 1..Len(b) |-> IF i > off /\ i <= off + Len(w) THEN w[i - off] ELSE b[i]]

\* the n bytes of b that start at offset off
Slice(b, off, n) == SubSeq(b, off + 1, off + n)

(***************************************************************************)
(* F applied to the value of v: the steps of a handler in sequence.        *)
(***************************************************************************)
Then(v, F(_)) == CHOOSE r \in {F(x) : x \in {v}} : TRUE

(***************************************************************************)
(* proxy_peers: the peer cache of a connection.  s.ctx[c].peers is the     *)
(* array peers[0..npeers-1] as a sequence of fd_ctx ids.                   *)
(***************************************************************************)
SetCtx(s, c, f, v) == [s EXCEPT !.ctx[c][f] = v]

\* the least index of seq whose entry satisfies Test, or 0
First(seq, Test(_)) ==
    IF \E i \in 1..Len(seq) : Test(seq[i])
    THEN CHOOSE i \in 1..Len(seq) : Test(seq[i]) /\ \A j \in 1..(i - 1) : ~Test(seq[j])
    ELSE 0

\* proxy_peers::find
find(s, c, uid) ==
    Then(First(s.ctx[c].peers, LAMBDA p : s.ctx[p].faf_uid = uid),
         LAMBDA i : IF i = 0 THEN NULL ELSE s.ctx[c].peers[i])

RECURSIVE deallocate_fdctx(_, _)
RECURSIVE unref_from(_, _, _)

\* --p->refcount, and deallocate_fdctx(p) when it reaches 0
unref(s, p) ==
    Then([s EXCEPT !.ctx[p].refcount = @ - 1],
         LAMBDA s1 : IF s1.ctx[p].refcount = 0 THEN deallocate_fdctx(s1, p) ELSE s1)

\* the loop of proxy_peers::unref_all from index i on
unref_from(s, c, i) ==
    IF i > Len(s.ctx[c].peers) THEN s
    ELSE Then(unref(s, s.ctx[c].peers[i]), LAMBDA s1 : unref_from(s1, c, i + 1))

\* proxy_peers::unref_all
unref_all(s, c) == SetCtx(unref_from(s, c, 1), c, "peers", << >>)

\* deallocate_fdctx: ~fd_ctx runs peers.unref_all(), then the record is freed
deallocate_fdctx(s, p) ==
    [unref_all(s, p) EXCEPT !.ctx[p].alloc = "freed", !.ctx[p].nfree = @ + 1]

\* proxy_peers::add with the newest mapping put out of a full cache
add_evicts_newest(s, c, p) ==
    IF Len(s.ctx[c].peers) < MAX_PEERS
    THEN [s EXCEPT !.ctx[c].peers = << p >> \o @, !.ctx[p].refcount = @ + 1]
    ELSE Then(unref(s, s.ctx[c].peers[1]),
              LAMBDA s1 : [s1 EXCEPT !.ctx[c].peers = << p >> \o Tail(@),
                                     !.ctx[p].refcount = @ + 1])

\* proxy_peers::add on the cache of c
RECURSIVE add(_, _, _)
add(s, c, p) ==
    IF Len(s.ctx[c].peers) < MAX_PEERS
    THEN \* insert fresh entries at the front
         [s EXCEPT !.ctx[c].peers = << p >> \o @, !.ctx[p].refcount = @ + 1]
    ELSE \* remove oldest mapping
         Then(unref(s, s.ctx[c].peers[Len(s.ctx[c].peers)]),
              LAMBDA s1 : add([s1 EXCEPT !.ctx[c].peers = SubSeq(@, 1, Len(@) - 1)],
                              c, p))

\* proxy_peers::remove without the unref of the entry taken out
remove_keeps_ref(s, c, p) ==
    Then(First(s.ctx[c].peers, LAMBDA q : q = p),
         LAMBDA k : IF k = 0 THEN s
                    ELSE [s EXCEPT !.ctx[c].peers =
                             SubSeq(@, 1, k - 1) \o SubSeq(@, k + 1, Len(@))])

\* proxy_peers::remove on the cache of c
remove(s, c, p) ==
    Then(First(s.ctx[c].peers, LAMBDA q : q = p),
         LAMBDA k : IF k = 0 THEN s
                    ELSE unref([s EXCEPT !.ctx[c].peers =
                                   SubSeq(@, 1, k - 1) \o SubSeq(@, k + 1, Len(@))], p))

\* proxy_peers::remove_from_all_peers: the loop reads npeers and peers[i] of
\* the cache of c anew in every round, while the calls may shrink that cache
RECURSIVE remove_from_all_peers_from(_, _, _)
remove_from_all_peers_from(s, c, i) ==
    IF i > Len(s.ctx[c].peers) THEN s
    ELSE Then(remove(s, s.ctx[c].peers[i], c),
              LAMBDA s1 : remove_from_all_peers_from(s1, c, i + 1))

\* fd_ctx::remove_myself_from_peer_caches
remove_myself_from_peer_caches(s, c) == remove_from_all_peers_from(s, c, 1)

(***************************************************************************)
(* peer_sockets: std::set<fd_ctx *, fd_ctx_less_by_uid>.  Two records with *)
(* the same faf_uid are equivalent keys of the set; the key of a member is *)
(* read through the pointer whenever the set compares.                     *)
(***************************************************************************)
SameKey(s, c) == {x \in s.peer_sockets : s.ctx[x].faf_uid = s.ctx[c].faf_uid}

\* peer_sockets.insert(ctxp): a set keeps the member it has for that key
insert(s, c) ==
    IF SameKey(s, c) # {} THEN s
    ELSE [s EXCEPT !.peer_sockets = @ \cup {c}]

\* peer_sockets.erase(ctxp): erases the member whose key equals that of ctxp
erase(s, c) == [s EXCEPT !.peer_sockets = @ \ SameKey(s, c)]

\* if (ctxp->faf_uid != -1) peer_sockets.erase(ctxp)
erase_if_uid(s, c) == IF s.ctx[c].faf_uid # NoUid THEN erase(s, c) ELSE s

\* peer_sockets.find(&fd_ctx_finder) with fd_ctx_finder.faf_uid = uid
index_find(s, uid) ==
    IF \E x \in s.peer_sockets : s.ctx[x].faf_uid = uid
    THEN CHOOSE x \in s.peer_sockets : s.ctx[x].faf_uid = uid
    ELSE NULL

\* the members of peer_sockets in the order begin()..end() visits them
RECURSIVE SortByUid(_, _)
SortByUid(s, set) ==
    IF set = {} THEN << >>
    ELSE Then(CHOOSE x \in set : \A y \in set : s.ctx[x].faf_uid <= s.ctx[y].faf_uid,
              LAMBDA m : << m >> \o SortByUid(s, set \ {m}))

\* lines 735-746 and 762-776 without the tombstone of a record that stays
\* allocated: faf_uid keeps its value
close_peer_keeps_uid(s, c) ==
    Then(remove_myself_from_peer_caches(
             erase_if_uid([s EXCEPT !.ctx[c].fd_open = FALSE,
                                    !.total_sockets = @ - 1], c), c),
         LAMBDA s3 :
             IF s3.ctx[c].refcount - 1 = 0
             THEN deallocate_fdctx([s3 EXCEPT !.ctx[c].refcount = @ - 1], c)
             ELSE [s3 EXCEPT !.ctx[c].refcount = @ - 1])

(***************************************************************************)
(* The close of a peer connection: lines 735-746 after a read of 0 bytes,  *)
(* and lines 762-776 for a frame that is too big.                          *)
(***************************************************************************)
close_peer(s, c) ==
    Then(remove_myself_from_peer_caches(
             erase_if_uid([s EXCEPT !.ctx[c].fd_open = FALSE,
                                    !.total_sockets = @ - 1], c), c),
         LAMBDA s3 :
             IF s3.ctx[c].refcount - 1 = 0
             THEN deallocate_fdctx([s3 EXCEPT !.ctx[c].refcount = @ - 1], c)
             ELSE [s3 EXCEPT !.ctx[c].refcount = @ - 1, !.ctx[c].faf_uid = NoUid])

\* lines 818-823 with the size stored before the port is read: the port then
\* comes out of bytes the size has overwritten
rewrite_header_size_first(b, head, in_msg_size) ==
    Then(Store(b, head + OUT_HEADER_OFFSET_ADJ,
               htonl(in_msg_size - OUT_HEADER_OFFSET_ADJ)),
         LAMBDA nb :
             Store(nb, head + OUT_HEADER_OFFSET_ADJ + 4, htons(ntohs(nb, head + 4))))

(***************************************************************************)
(* The in-place header rewrite of lines 816-820 on the frame at offset     *)
(* head of buffer b: the port is read, then stored two bytes further on,   *)
(* then the new size is stored over the old size's tail and the old port.  *)
(***************************************************************************)
rewrite_header(b, head, in_msg_size) ==
    Then(ntohs(b, head + 4),
         LAMBDA in_port :
             Store(Store(b, head + OUT_HEADER_OFFSET_ADJ + 4, htons(in_port)),
                   head + OUT_HEADER_OFFSET_ADJ,
                   htonl(in_msg_size - OUT_HEADER_OFFSET_ADJ)))

(***************************************************************************)
(* The frame loop of lines 752-834 on connection c, from offset head on.   *)
(* It yields the state, the final offset and the postprocess flag.  Each   *)
(* frame taken leaves an entry in s.flog, each write(peer->fd) in s.wlog.  *)
(***************************************************************************)
Frame(kind, c, head, size, uid, peer) ==
    [kind |-> kind, src |-> c, head |-> head, size |-> size, uid |-> uid,
     peer |-> peer, pre |-> << >>, post |-> << >>]

Logged(s, f) == [s EXCEPT !.flog = Append(@, f)]

\* what a frame may change of its source connection, and the writes so far
Snap(s, c) ==
    [fd_open |-> s.ctx[c].fd_open, faf_uid |-> s.ctx[c].faf_uid,
     refcount |-> s.ctx[c].refcount, peers |-> s.ctx[c].peers,
     writes |-> Len(s.wlog)]

\* the last entry of the log of s1 is of the frame that led from s to s1
Snapped(s, s1, c) ==
    [s1 EXCEPT !.flog[Len(s1.flog)].pre = Snap(s, c),
               !.flog[Len(s1.flog)].post = Snap(s1, c)]

\* lines 816-831 with the write of a frame taking effect ahead of the writes
\* of the frames before it
forward_overtakes(s, c, head, in_msg_size, uid, peer) ==
    Then(rewrite_header(s.ctx[c].buf, head, in_msg_size),
         LAMBDA nb :
             [s EXCEPT
                !.ctx[c].buf = nb,
                !.wlog = << [src |-> c, dst |-> peer,
                             dst_open |-> s.ctx[peer].fd_open,
                             dst_alloc |-> s.ctx[peer].alloc,
                             in |-> Slice(s.ctx[c].buf, head, in_msg_size + 4),
                             out |-> Slice(nb, head + OUT_HEADER_OFFSET_ADJ,
                                           in_msg_size - OUT_HEADER_OFFSET_ADJ + 4)] >>
                          \o @,
                !.flog = Append(@, Frame("fwd", c, head, in_msg_size, uid, peer))])

\* lines 816-831: the header of the frame at head is rewritten, and the
\* frame written to peer->fd
forward(s, c, head, in_msg_size, uid, peer) ==
    Then(rewrite_header(s.ctx[c].buf, head, in_msg_size),
         LAMBDA nb :
             [s EXCEPT
                !.ctx[c].buf = nb,
                !.wlog = Append(@,
                    [src |-> c, dst |-> peer,
                     dst_open |-> s.ctx[peer].fd_open,
                     dst_alloc |-> s.ctx[peer].alloc,
                     in |-> Slice(s.ctx[c].buf, head, in_msg_size + 4),
                     out |-> Slice(nb, head + OUT_HEADER_OFFSET_ADJ,
                                   in_msg_size - OUT_HEADER_OFFSET_ADJ + 4)]),
                !.flog = Append(@, Frame("fwd", c, head, in_msg_size, uid, peer))])

\* lines 800-814 with a miss in peer_sockets taken as fatal
route_miss_closes(s, c, head, in_msg_size) ==
    Then(ntohs(s.ctx[c].buf, head + 6),
         LAMBDA uid :
           Then(find(s, c, uid),
                LAMBDA peer :
                  IF peer # NULL
                  THEN forward(s, c, head, in_msg_size, uid, peer)
                  ELSE Then(index_find(s, uid),
                            LAMBDA hit :
                              IF hit # NULL
                              THEN forward(add(s, c, hit), c, head, in_msg_size, uid, hit)
                              ELSE Logged(close_peer(s, c),
                                          Frame("drop", c, head, in_msg_size,
                                                uid, NULL)))))

\* lines 800-814: the destination of the frame at head is looked up in the
\* cache of c, then in peer_sockets
route(s, c, head, in_msg_size) ==
    Then(ntohs(s.ctx[c].buf, head + 6),
         LAMBDA uid :
           Then(find(s, c, uid),
                LAMBDA peer :
                  IF peer # NULL
                  THEN forward(s, c, head, in_msg_size, uid, peer)
                  ELSE Then(index_find(s, uid),
                            LAMBDA hit :
                              IF hit # NULL
                              THEN forward(add(s, c, hit), c, head, in_msg_size, uid, hit)
                              ELSE Logged(s, Frame("drop", c, head, in_msg_size,
                                                   uid, NULL)))))

\* lines 785-833 without the decay_mode guard of line 799
take_frame_in_decay(s, c, head, in_msg_size) ==
    IF s.ctx[c].faf_uid = NoUid
    THEN Then(ntohs(s.ctx[c].buf, head + 4),
              LAMBDA uid :
                Logged(insert(SetCtx(s, c, "faf_uid", uid), c),
                       Frame("uid", c, head, in_msg_size, uid, NULL)))
    ELSE route(s, c, head, in_msg_size)

\* the frame at head, of in_msg_size + 4 <= buf_len bytes (lines 785-833)
take_frame(s, c, head, in_msg_size) ==
    IF s.ctx[c].faf_uid = NoUid
    THEN Then(ntohs(s.ctx[c].buf, head + 4),
              LAMBDA uid :
                Logged(insert(SetCtx(s, c, "faf_uid", uid), c),
                       Frame("uid", c, head, in_msg_size, uid, NULL)))
    ELSE IF s.decay_mode
    THEN Logged(s, Frame("decay", c, head, in_msg_size, NoUid, NULL))
    ELSE route(s, c, head, in_msg_size)

Stop(s, head, postprocess, hung) ==
    [s |-> s, head |-> head, postprocess |-> postprocess, hung |-> hung]

\* the bytes of the record in front of buf (lines 70-77): buf_len, refcount
\* and protocol (IPPROTO_TCP), as a big-endian build holds them
FrontOfBuf(s, c) ==
    htonl(Len(s.ctx[c].buf)) \o htonl(s.ctx[c].refcount) \o htonl(6)

(***************************************************************************)
(* Lines 785-833 for a size field with in_msg_size + 4 <= 0, which passes  *)
(* the tests of lines 760 and 781: buf_head += in_msg_size + 4 leaves      *)
(* buf_head where it is or moves it back.  A connection without uid takes  *)
(* its uid from the two bytes behind the size field, received or not; for  *)
(* one with uid the write of line 826, of a length below zero, is left out.*)
(* Moved back inside buf, the loop takes an earlier header again and is    *)
(* taken not to come back.  Moved in front of buf, the next header is read *)
(* from the fields of the record or from what the heap holds before it,    *)
(* and what follows depends on layout and byte order of the build; s.stray *)
(* is that outcome: a size too big, so that the connection is closed       *)
(* (protocol read on a little-endian build); a size that needs more bytes, *)
(* so that the loop breaks and the compaction of lines 836-843 takes the   *)
(* bytes from buf_head on into buf; or a loop that does not come back.     *)
(***************************************************************************)
step_back(s, c, head, in_msg_size) ==
    Then(Logged(IF s.ctx[c].faf_uid # NoUid THEN s
                ELSE IF Len(s.ctx[c].buf) - head >= 6
                THEN insert(SetCtx(s, c, "faf_uid", ntohs(s.ctx[c].buf, head + 4)), c)
                ELSE insert(SetCtx(s, c, "faf_uid", s.junk), c),
                Frame("back", c, head, in_msg_size, NoUid, NULL)),
         LAMBDA s1 :
            IF head + in_msg_size + 4 >= 0 \/ s.stray = "hang"
               \/ 0 - (head + in_msg_size + 4) > Len(FrontOfBuf(s, c))
            THEN Stop(s1, head, FALSE, TRUE)
            ELSE IF s.stray = "toobig"
            THEN Stop(close_peer(s1, c), head, FALSE, FALSE)
            ELSE Stop([s1 EXCEPT !.ctx[c].buf =
                          SubSeq(FrontOfBuf(s, c),
                                 Len(FrontOfBuf(s, c)) + 1 + (head + in_msg_size + 4),
                                 Len(FrontOfBuf(s, c))) \o @],
                      0, TRUE, FALSE))

RECURSIVE frame_loop(_, _, _)
frame_loop(s, c, head) ==
    IF ~(head < Len(s.ctx[c].buf)) \/ Len(s.ctx[c].buf) - head < 4
    THEN Stop(s, head, TRUE, FALSE)
    ELSE Then(ntohl(s.ctx[c].buf, head),
      LAMBDA in_msg_size :
        IF in_msg_size > FDCTX_CLIENT_BUFSIZE
        THEN Then(Logged(close_peer(s, c),
                         Frame("toobig", c, head, in_msg_size, NoUid, NULL)),
                  LAMBDA s1 : Stop(Snapped(s, s1, c), head, FALSE, FALSE))
        ELSE IF in_msg_size + 4 > Len(s.ctx[c].buf) - head
        THEN Stop(s, head, TRUE, FALSE)
        ELSE IF in_msg_size + 4 <= 0
        THEN step_back(s, c, head, in_msg_size)
        ELSE Then(take_frame(s, c, head, in_msg_size),
                  LAMBDA s1 : frame_loop(Snapped(s, s1, c), c,
                                         head + in_msg_size + 4)))

\* lines 836-843 with buf_len set to 0 whatever is left behind buf_head
compact_drops(b, head) == SubSeq(b, 1, 0 * head)

\* lines 836-843: the bytes from buf_head on move to the front of buf
compact(b, head) == Slice(b, head, Len(b) - head)

(***************************************************************************)
(* send_fds (lines 266-342) over the records list visits, begin to end.    *)
(* all says whether a container is given to erase from (the bulk send);    *)
(* ok is the outcome of sendmsg.  The message is left in s.clog and the    *)
(* returned fd_count in s.ret.                                             *)
(***************************************************************************)
\* buf is not initialised: an int of it that the loop has stepped over
\* without a store holds whatever the stack held, s.junk.  Uninit stands for
\* a value that is no uid and not -1.
Uninit == 0 - 2

\* how many records the for loop visits: it stops at end, or as soon as
\* fd_count has reached MAX_DESC_PER_MESSAGE
RECURSIVE Visited(_, _, _, _)
Visited(s, list, k, fd_count) ==
    IF k > Len(list) \/ ~(fd_count < MAX_DESC_PER_MESSAGE) THEN k - 1
    ELSE Visited(s, list, k + 1,
                 IF Len(s.ctx[list[k]].buf) = 0 THEN fd_count + 1 ELSE fd_count)

\* lines 329-338: the fds sent are closed and counted off
close_sent(s, to_close) ==
    [s EXCEPT !.total_sockets = @ - Len(to_close),
              !.ctx = [c \in DOMAIN @ |->
                         IF \E i \in 1..Len(to_close) : to_close[i] = c
                         THEN [@[c] EXCEPT !.fd_open = FALSE, !.handed = TRUE]
                         ELSE @[c]]]

\* lines 289-323 without the test of line 293: every visited record is taken
desc_msg_any(s, visit, ok) ==
    [type |-> "desc", fds |-> visit,
     uids |-> [j \in 1..Len(visit) |-> s.ctx[visit[j]].faf_uid],
     ok |-> ok]

\* the message of lines 289-323 for the visited records, of which those
\* with buf_len == 0 are taken; *uidp is stored at a record's place in the visit
desc_msg(s, visit, ok) ==
    Then(SelectSeq(visit, LAMBDA x : Len(s.ctx[x].buf) = 0),
         LAMBDA to_close :
             [type |-> "desc", fds |-> to_close,
              uids |-> [j \in 1..Len(to_close) |->
                          IF Len(s.ctx[visit[j]].buf) = 0
                          THEN s.ctx[visit[j]].faf_uid ELSE s.junk],
              ok |-> ok])

send_fds(s, list, all, ok) ==
    Then(desc_msg(s, SubSeq(list, 1, Visited(s, list, 1, 0)), ok),
         LAMBDA msg :
           Then(IF all
                THEN [s EXCEPT !.peer_sockets =
                         @ \ {msg.fds[j] : j \in 1..Len(msg.fds)}]
                ELSE s,
                LAMBDA s1 :
                  IF Len(msg.fds) = 0 THEN [s1 EXCEPT !.ret = 0]
                  ELSE IF ~ok
                  THEN [s1 EXCEPT !.clog = Append(@, msg), !.ret = Len(msg.fds)]
                  ELSE [close_sent(s1, msg.fds) EXCEPT
                           !.clog = Append(@, msg), !.ret = Len(msg.fds)]))

\* send_fd (lines 349-351)
send_fd(s, c, ok) == send_fds(s, << c >>, FALSE, ok)

\* lines 599-606: the bulk send, do ... while (nsent && ! peer_sockets.empty())
RECURSIVE bulk_send(_, _)
bulk_send(s, ok) ==
    Then(send_fds(s, SortByUid(s, s.peer_sockets), TRUE, ok),
         LAMBDA s1 : IF s1.ret # 0 /\ s1.peer_sockets # {}
                     THEN bulk_send(s1, ok) ELSE s1)

\* lines 719-726 and 847-852: the single send of a connection in decay mode
single_send(s, c, ok) == Then(send_fd(s, c, ok), LAMBDA s1 : erase_if_uid(s1, c))

(***************************************************************************)
(* The handler of a readable peer connection c (lines 718-853): data are   *)
(* the bytes read() returns, << >> for a read of 0; ok is the outcome of   *)
(* a sendmsg the handler may come to.                                      *)
(*                                                                         *)
(* Line 847 reads ctxp->buf_len also after the too-big path has freed the  *)
(* record.  A freed record still holds its buf_len (at least 4 there), or  *)
(* reads as 0: then send_fd hands sendmsg the stale fd, which fails, and   *)
(* line 850 erases from peer_sockets by whatever faf_uid the freed memory  *)
(* holds.  wild is that outcome: NULL, or the member erased.               *)
(***************************************************************************)
\* lines 835-852: after the frame loop has stopped as r says
after_loop(r, c, ok, wild) ==
    Then(IF r.postprocess
         THEN [r.s EXCEPT !.ctx[c].buf = compact(@, r.head), !.hung = r.hung,
                          !.end = r.head]
         ELSE [r.s EXCEPT !.hung = r.hung, !.end = r.head],
         LAMBDA s3 :
             IF r.hung \/ ~s3.decay_mode THEN s3
             ELSE IF s3.ctx[c].alloc = "freed"
             THEN [s3 EXCEPT !.peer_sockets = @ \ {wild}]
             ELSE IF Len(s3.ctx[c].buf) = 0
             THEN single_send(s3, c, ok)
             ELSE s3)

peer_event(s, c, data, ok, wild) ==
    IF s.decay_mode /\ Len(s.ctx[c].buf) = 0
    THEN single_send(s, c, ok)
    ELSE IF Len(data) = 0
    THEN close_peer(s, c)
    ELSE Then(frame_loop([s EXCEPT !.ctx[c].buf = @ \o data], c, 0),
              LAMBDA r : after_loop(r, c, ok, wild))

(***************************************************************************)
(* The handler of the control connection of a listening instance (lines    *)
(* 574-611).  msg is what read() returned: "eof" for 0 bytes or an error   *)
(* that is not EINTR/EAGAIN, else the text.  wrote is the outcome of       *)
(* write("unlistening"), ok that of sendmsg.                               *)
(***************************************************************************)
\* lines 525-532 and 588-595: every listener is closed and counted off,
\* whether or not it was closed before
close_servers(s) ==
    [s EXCEPT !.servers_open = FALSE,
              !.server_closes = @ + NumServers,
              !.total_sockets = @ - NumServers]

\* lines 587-609 without the close loop of lines 588-595: "unlistening" is
\* written with the listeners left open
ctrl_event_keeps_listening(s, msg, wrote, ok) ==
    IF msg = "eof"
    THEN [s EXCEPT !.ctrl_conn_open = FALSE, !.ctrl_registered = TRUE]
    ELSE IF msg = "unlisten"
    THEN IF ~wrote THEN s
         ELSE [bulk_send([s EXCEPT !.clog = Append(@,
                              [type |-> "unlistening", fds |-> << >>,
                               uids |-> << >>, ok |-> TRUE])], ok)
                 EXCEPT !.decay_mode = TRUE]
    ELSE s

ctrl_event(s, msg, wrote, ok) ==
    IF msg = "eof"
    THEN [s EXCEPT !.ctrl_conn_open = FALSE, !.ctrl_registered = TRUE]
    ELSE IF msg = "unlisten"
    THEN IF ~wrote THEN close_servers(s)
         ELSE [bulk_send([close_servers(s) EXCEPT !.clog = Append(@,
                              [type |-> "unlistening", fds |-> << >>,
                               uids |-> << >>, ok |-> TRUE])], ok)
                 EXCEPT !.decay_mode = TRUE]
    ELSE s

(***************************************************************************)
(* State.                                                                  *)
(***************************************************************************)
VARIABLES
    ctx,              \* the fd_ctx records of peers, by id
    peer_sockets,     \* the UID index
    total_sockets,
    decay_mode,
    got_sigusr1,
    servers_open,     \* the TCP listeners are open and in the epoll set
    server_closes,    \* close() calls made on listener fds so far
    ctrl_registered,  \* ctrl_socket is in the epoll set
    ctrl_conn_open,   \* ctrl_socket_conn.fd is a connected socket
    pc,               \* "run", "hung" (a handler does not return), "exited"
    pending,          \* bytes a peer has written that the proxy has not read
    sent,             \* history: the frames each peer has written
    nsent,            \* history: how many frames the peers have written
    emitted,          \* history: the writes each source connection caused
    ev,               \* the last handler run and what it did
    nsignals,
    nctrl,
    asked,            \* the peer of the control connection has sent "unlisten"
    succ              \* the instance started on the control path of this one

vars == << ctx, peer_sockets, total_sockets, decay_mode, got_sigusr1, servers_open,
           server_closes, ctrl_registered, ctrl_conn_open, pc, pending,
           sent, nsent, emitted, ev, nsignals, nctrl, asked, succ >>

UIDs == {1, 2}
\* the payloads and the port of the frames peers send
Payloads == {<< 222, 173 >>}
Ports == {4660}

\* a record that is not allocated
NoCtx == [alloc |-> "free", faf_uid |-> NoUid, fd_open |-> FALSE, buf |-> << >>,
          peers |-> << >>, refcount |-> 0, handed |-> FALSE, nfree |-> 0]

\* allocate_fdctx and lines 701-706
NewCtx == [alloc |-> "live", faf_uid |-> NoUid, fd_open |-> TRUE, buf |-> << >>,
           peers |-> << >>, refcount |-> 1, handed |-> FALSE, nfree |-> 0]

\* the program state as the handlers take it
St == [ctx |-> ctx, peer_sockets |-> peer_sockets, total_sockets |-> total_sockets,
       decay_mode |-> decay_mode, servers_open |-> servers_open,
       server_closes |-> server_closes, ctrl_registered |-> ctrl_registered,
       ctrl_conn_open |-> ctrl_conn_open,
       flog |-> << >>, wlog |-> << >>, clog |-> << >>, ret |-> 0, hung |-> FALSE,
       junk |-> Uninit, stray |-> "hang",
       end |-> 0]

Event(op, c, pre_len, n, s) ==
    [op |-> op, c |-> c, pre_len |-> pre_len, n |-> n, end |-> s.end,
     flog |-> s.flog, wlog |-> s.wlog, clog |-> s.clog]

(***************************************************************************)
(* The successor: an instance of the program started on the same control  *)
(* path while this one listens on it (lines 405-446), as far as the        *)
(* control connection goes.  pc is "none" where no such instance is        *)
(* followed and the peer of the control connection may send anything;      *)
(* else "start" before connect(), "wait" in the blocking recv of line 438, *)
(* "shake" once "unlistening" is read, "client" in its event loop with     *)
(* ctrl_socket_mode_listen false, "listen" after "exit" is read, "aborted" *)
(* after exit(1).  outbox and inbox hold the messages under way to and     *)
(* from this instance; heard and inherited are what the successor has      *)
(* read and the fds it has taken over with their uids.                     *)
(***************************************************************************)
NoSucc == [pc |-> "none", servers_open |-> FALSE, conn_open |-> FALSE,
           outbox |-> << >>, inbox |-> << >>, heard |-> << >>,
           inherited |-> << >>, total_sockets |-> 0]

\* what write() and sendmsg() on the control connection have delivered
Hears(clog) ==
    IF succ.pc = "none" THEN succ
    ELSE [succ EXCEPT !.inbox = @ \o SelectSeq(clog, LAMBDA m : m.ok)]

\* the peer of the control connection has its end open: a write or sendmsg
\* on the control connection can succeed
Listens == succ.pc = "none" \/ succ.conn_open

\* what read() on the control connection of this instance returns
Arrived ==
    IF succ.outbox # << >> THEN Head(succ.outbox)
    ELSE IF ~succ.conn_open THEN "eof" ELSE "none"

\* the variables take the state a handler has left
Becomes(s) ==
    /\ ctx' = s.ctx
    /\ peer_sockets' = s.peer_sockets
    /\ total_sockets' = s.total_sockets
    /\ decay_mode' = s.decay_mode
    /\ servers_open' = s.servers_open
    /\ server_closes' = s.server_closes
    /\ ctrl_registered' = s.ctrl_registered
    /\ ctrl_conn_open' = s.ctrl_conn_open
    /\ pc' = IF s.hung THEN "hung" ELSE pc

RECURSIVE Concat(_)
Concat(seqs) == IF seqs = << >> THEN << >> ELSE Head(seqs) \o Concat(Tail(seqs))

\* state after construction with a control path nobody listens on: lines
\* 387-394, 419-422 and 519
InitOf(conns) ==
    /\ ctx = [c \in conns |-> NoCtx]
    /\ peer_sockets = {}
    /\ total_sockets = NumServers
    /\ decay_mode = FALSE
    /\ got_sigusr1 = FALSE
    /\ servers_open = TRUE
    /\ server_closes = 0
    /\ ctrl_registered = TRUE
    /\ ctrl_conn_open = FALSE
    /\ pc = "run"
    /\ pending = [c \in conns |-> << >>]
    /\ sent = [c \in conns |-> << >>]
    /\ nsent = 0
    /\ emitted = [c \in conns |-> << >>]
    /\ ev = Event("init", NULL, 0, 0, St)
    /\ nsignals = 0
    /\ nctrl = 0
    /\ asked = FALSE
    /\ succ = NoSucc

Init == InitOf(1..NConn)

\* the connections of the run
Conn == DOMAIN ctx

(***************************************************************************)
(* The peers and what they write.                                          *)
(***************************************************************************)
\* the frames of the peer protocol
AnnounceFrame(uid) == htonl(2) \o htons(uid)
MsgFrame(port, destuid, payload) ==
    htonl(4 + Len(payload)) \o htons(port) \o htons(destuid) \o payload

\* size fields no buffer can hold: 0x7FFFFFFF, and one with
\* size <= capacity < size + 4
BigSizes == {2147483647, FDCTX_CLIENT_BUFSIZE - 2}

Announces == {AnnounceFrame(u) : u \in UIDs}
Messages == {MsgFrame(p, u, pl) : p \in Ports, u \in UIDs, pl \in Payloads}
BigHeaders == {htonl(z) : z \in BigSizes}

Quiet == UNCHANGED << ctx, peer_sockets, total_sockets, decay_mode, got_sigusr1,
                      servers_open, server_closes, ctrl_registered, ctrl_conn_open,
                      pc, emitted, ev, nsignals, nctrl, asked, succ >>

\* a peer writes frame f on its connection c once the proxy has read all that
\* was written before: an announce first, then messages; max bounds the run
PeerSend(c, f, max) ==
    /\ pc = "run"
    /\ ctx[c].alloc = "live" /\ ctx[c].fd_open
    /\ \A d \in DOMAIN pending : pending[d] = << >>
    /\ ctx[c].buf = << >>
    /\ IF ctx[c].faf_uid = NoUid THEN f \in Announces
                                 ELSE f \in Messages \cup BigHeaders
    /\ nsent < max
    /\ pending' = [pending EXCEPT ![c] = f]
    /\ nsent' = nsent + 1
    /\ UNCHANGED sent
    /\ Quiet

(***************************************************************************)
(* The event loop: one action per handler.                                 *)
(***************************************************************************)
\* lines 693-717: a TCP listener is readable and accept() yields a socket
Accept(c) ==
    /\ pc = "run"
    /\ servers_open
    /\ ctx[c].alloc = "free"
    /\ \A d \in Conn : d < c => ctx[d].alloc # "free"
    /\ ctx' = [ctx EXCEPT ![c] = NewCtx]
    /\ total_sockets' = total_sockets + 1
    /\ ev' = Event("accept", c, 0, 0, St)
    /\ UNCHANGED << peer_sockets, decay_mode, got_sigusr1, servers_open, server_closes,
                    ctrl_registered, ctrl_conn_open, pc, pending, sent, nsent,
                    emitted, nsignals, nctrl, asked, succ >>

\* the writes of a handler run, as the history keeps them
Emit(old, wlog) ==
    [c \in DOMAIN old |->
        old[c] \o Then(SelectSeq(wlog, LAMBDA w : w.src = c),
                       LAMBDA ws : [i \in 1..Len(ws) |->
                                      [dst |-> ws[i].dst, out |-> ws[i].out]])]

\* what an int of the stack may hold: a uid, -1 or something else
Garbage == UIDs \cup {NoUid, Uninit}

\* what a frame loop that steps back may come to
StrayOutcomes == {"hang", "toobig", "break"}

\* the states the handler of c may leave: one, unless the frame loop steps
\* back, and then one for each thing the bytes it comes to read may hold
Outcomes(c, data, ok, wild) ==
    Then(peer_event(St, c, data, ok, wild),
         LAMBDA s0 :
            IF s0.hung
            THEN {peer_event([St EXCEPT !.stray = o, !.junk = j],
                             c, data, ok, wild) : o \in StrayOutcomes, j \in Garbage}
            ELSE {s0})

\* lines 718-853: peer connection c is readable, with bytes to read or, when
\* the peer has written nothing more, with its end of stream; read() returns
\* n bytes.  hist says whether the history of writes is kept.
PeerRead(c, n, hist) ==
    /\ pc = "run"
    /\ ctx[c].alloc = "live" /\ ctx[c].fd_open
    /\ LET room == FDCTX_CLIENT_BUFSIZE - Len(ctx[c].buf)
           most == IF Len(pending[c]) < room THEN Len(pending[c]) ELSE room
           reads == ~(decay_mode /\ Len(ctx[c].buf) = 0)
       IN  /\ IF reads /\ most > 0 THEN n \in 1..most ELSE n = 0
           /\ \E ok \in (IF ctrl_conn_open /\ Listens THEN BOOLEAN ELSE {FALSE}) :
              \E wild \in (IF decay_mode THEN {NULL} \cup peer_sockets ELSE {NULL}) :
              \E s \in Outcomes(c, SubSeq(pending[c], 1, n), ok, wild) :
                    /\ Becomes(s)
                    /\ ev' = Event("read", c, Len(ctx[c].buf), n, s)
                    /\ succ' = Hears(s.clog)
                    /\ emitted' = IF hist THEN Emit(emitted, s.wlog) ELSE emitted
           /\ pending' = [pending EXCEPT ![c] = SubSeq(@, n + 1, Len(@))]
    /\ UNCHANGED << got_sigusr1, sent, nsent, nsignals, nctrl, asked >>

\* lines 208-210: SIGUSR1 arrives
Signal ==
    /\ pc = "run"
    /\ nsignals < MaxSignals
    /\ got_sigusr1' = TRUE
    /\ nsignals' = nsignals + 1
    /\ UNCHANGED << ctx, peer_sockets, total_sockets, decay_mode, servers_open,
                    server_closes, ctrl_registered, ctrl_conn_open, pc, pending,
                    sent, nsent, emitted, ev, nctrl, asked, succ >>

\* lines 522-534: the top of a loop round that finds got_sigusr1 set
LoopSignal ==
    /\ pc = "run"
    /\ total_sockets # 0
    /\ got_sigusr1
    /\ \E s \in {close_servers(St)} :
          Becomes(s) /\ ev' = Event("sigusr1", NULL, 0, 0, s)
    /\ got_sigusr1' = FALSE
    /\ UNCHANGED << pending, sent, nsent, emitted, nsignals, nctrl, asked, succ >>

\* lines 857-865 taken whatever total_sockets is
LoopExitAnytime ==
    /\ pc = "run"
    /\ pc' = "exited"
    /\ ev' = Event("exit", NULL, 0, 0,
                   [St EXCEPT !.clog = IF decay_mode
                                       THEN << [type |-> "exit", fds |-> << >>,
                                                uids |-> << >>,
                                                ok |-> ctrl_conn_open /\ Listens] >>
                                       ELSE << >>])
    /\ succ' = Hears(ev'.clog)
    /\ UNCHANGED << ctx, peer_sockets, total_sockets, decay_mode, got_sigusr1,
                    servers_open, server_closes, ctrl_registered, ctrl_conn_open,
                    pending, sent, nsent, emitted, nsignals, nctrl, asked >>

\* lines 522 and 857-865: the loop ends once total_sockets is 0
LoopExit ==
    /\ pc = "run"
    /\ total_sockets = 0
    /\ pc' = "exited"
    /\ ev' = Event("exit", NULL, 0, 0,
                   [St EXCEPT !.clog = IF decay_mode
                                       THEN << [type |-> "exit", fds |-> << >>,
                                                uids |-> << >>,
                                                ok |-> ctrl_conn_open /\ Listens] >>
                                       ELSE << >>])
    /\ succ' = Hears(ev'.clog)
    /\ UNCHANGED << ctx, peer_sockets, total_sockets, decay_mode, got_sigusr1,
                    servers_open, server_closes, ctrl_registered, ctrl_conn_open,
                    pending, sent, nsent, emitted, nsignals, nctrl, asked >>

\* lines 549-572: ctrl_socket is readable and accept() yields a connection
CtrlAccept ==
    /\ pc = "run"
    /\ ctrl_registered
    /\ nctrl < MaxCtrl
    /\ succ.pc # "start"
    /\ ctrl_conn_open' = TRUE
    /\ ctrl_registered' = FALSE
    /\ nctrl' = nctrl + 1
    /\ asked' = FALSE
    /\ ev' = Event("ctrl_accept", NULL, 0, 0, St)
    /\ UNCHANGED << ctx, peer_sockets, total_sockets, decay_mode, got_sigusr1,
                    servers_open, server_closes, pc, pending, sent, nsent,
                    emitted, nsignals, succ >>

\* lines 573-611: the control connection is readable
CtrlRead(msg) ==
    /\ pc = "run"
    /\ ctrl_conn_open
    /\ msg = "unlisten" => ~asked
    /\ succ.pc # "none" => msg = Arrived
    /\ \E wrote \in {Listens, FALSE}, ok \in {Listens, FALSE}, junk \in Garbage :
         \E s \in {ctrl_event([St EXCEPT !.junk = junk], msg, wrote, ok)} :
             /\ Becomes(s)
             /\ ev' = Event(msg, NULL, 0, 0, s)
             /\ succ' = [Hears(s.clog) EXCEPT !.outbox = IF @ = << >> THEN @ ELSE Tail(@)]
    /\ asked' = (asked \/ msg = "unlisten")
    /\ UNCHANGED << got_sigusr1, pending, sent, nsent, emitted, nsignals, nctrl >>

\* the frames peers write in Spec and SpecRoute
Frames == Announces \cup Messages \cup BigHeaders

Next ==
    \/ \E c \in Conn : Accept(c)
    \/ \E c \in Conn : \E f \in Frames : PeerSend(c, f, MaxSent)
    \/ \E c \in Conn : \E n \in {0, 3, Len(pending[c])} : PeerRead(c, n, FALSE)
    \/ Signal
    \/ LoopSignal
    \/ LoopExit
    \/ CtrlAccept
    \/ \E msg \in {"unlisten", "eof"} : CtrlRead(msg)

Spec == Init /\ [][Next]_vars

\* an instance without control connection or signal, and reads that take
\* all there is
InitRoute == InitOf(1..NRoute)

NextRoute ==
    \/ \E c \in Conn : Accept(c)
    \/ \E c \in Conn : \E f \in Frames : PeerSend(c, f, MaxRouteSent)
    \/ \E c \in Conn : \E n \in {0, Len(pending[c])} : PeerRead(c, n, FALSE)

SpecRoute == InitRoute /\ [][NextRoute]_vars

(***************************************************************************)
(* SpecStream: a peer writes frame after frame without waiting while the   *)
(* other connections are at rest, and a read returns any number of the     *)
(* bytes that have arrived.  A message goes to a uid that peer_sockets     *)
(* holds, or to one no peer announces.                                     *)
(***************************************************************************)
\* a uid no peer announces
Strangers == {99}
StreamPayloads == {<< >>, << 222, 173 >>}

PeerWrite(c, f) ==
    /\ pc = "run"
    /\ ctx[c].alloc = "live" /\ ctx[c].fd_open
    /\ nsent < MaxStream
    /\ \A d \in Conn \ {c} : pending[d] = << >> /\ ctx[d].buf = << >>
    /\ IF sent[c] = << >> THEN f = AnnounceFrame(c)
       ELSE \E p \in Ports, pl \in StreamPayloads :
              \E u \in {v \in UIDs : index_find(St, v) # NULL} \cup Strangers :
                 f = MsgFrame(p, u, pl)
    /\ sent' = [sent EXCEPT ![c] = Append(@, f)]
    /\ pending' = [pending EXCEPT ![c] = @ \o f]
    /\ nsent' = nsent + 1
    /\ Quiet

StreamFrames ==
    Announces \cup {MsgFrame(p, u, pl) : p \in Ports, u \in UIDs \cup Strangers,
                                         pl \in StreamPayloads}

InitStream == InitOf(1..NStream)

NextStream ==
    \/ \E c \in Conn : Accept(c)
    \/ \E c \in Conn : \E f \in StreamFrames : PeerWrite(c, f)
    \/ \E c \in Conn : \E n \in 1..Len(pending[c]) : PeerRead(c, n, TRUE)

SpecStream == InitStream /\ [][NextStream]_vars

(***************************************************************************)
(* Peers that announce, write and close as in SpecRoute, with a peer on    *)
(* the control connection that may ask for the handoff.                    *)
(***************************************************************************)
NextDead ==
    \/ \E c \in Conn : Accept(c)
    \/ \E c \in Conn : \E f \in Frames : PeerSend(c, f, MaxRouteSent)
    \/ \E c \in Conn : \E n \in {0, Len(pending[c])} : PeerRead(c, n, FALSE)
    \/ CtrlAccept
    \/ CtrlRead("unlisten")

SpecDead == InitRoute /\ [][NextDead]_vars

(***************************************************************************)
(* The handoff between two instances: this one, and a successor started on *)
(* its control path.                                                       *)
(***************************************************************************)
\* the variables of this instance
Old == << ctx, peer_sockets, total_sockets, decay_mode, got_sigusr1, servers_open,
          server_closes, ctrl_registered, ctrl_conn_open, pc, pending,
          sent, nsent, emitted, ev, nsignals, nctrl, asked >>

\* this instance has a TCP listener open
OldListening == servers_open /\ pc # "exited"

\* lines 405-436: the successor connects to the control path, on which this
\* instance listens, and sends "unlisten"
SuccStart ==
    /\ succ.pc = "start"
    /\ pc = "run"
    /\ succ' = [succ EXCEPT !.pc = "wait", !.conn_open = TRUE,
                            !.outbox = << "unlisten" >>]
    /\ UNCHANGED Old

\* lines 438-445: the blocking recv returns.  With a message, the successor
\* goes on if it is "unlistening" and exits if not.  With 0 or an error,
\* this instance being gone, buf is compared as the stack left it: the
\* successor exits, or goes on if the bytes happen to match.
SuccShake ==
    /\ succ.pc = "wait"
    /\ \/ /\ succ.inbox # << >>
          /\ succ' = IF Head(succ.inbox).type = "unlistening"
                     THEN [succ EXCEPT !.pc = "shake", !.inbox = Tail(@),
                                       !.heard = Append(@, Head(succ.inbox))]
                     ELSE [succ EXCEPT !.pc = "aborted", !.conn_open = FALSE,
                                       !.inbox = Tail(@),
                                       !.heard = Append(@, Head(succ.inbox))]
       \/ /\ succ.inbox = << >> /\ pc = "exited"
          /\ \E match \in BOOLEAN :
                succ' = IF match THEN [succ EXCEPT !.pc = "shake"]
                        ELSE [succ EXCEPT !.pc = "aborted", !.conn_open = FALSE]
    /\ UNCHANGED Old

\* lines 449-519: the successor creates its TCP listeners; bind() fails, and
\* the successor exits, while another socket listens on the port
SuccListen ==
    /\ succ.pc = "shake"
    /\ succ' = IF OldListening
               THEN [succ EXCEPT !.pc = "aborted", !.conn_open = FALSE]
               ELSE [succ EXCEPT !.pc = "client", !.servers_open = TRUE,
                                 !.total_sockets = NumServers]
    /\ UNCHANGED Old

\* lines 644-677: the fds of a "desc" message with the uids that came with them
Inherited(m) == [j \in 1..Len(m.uids) |-> [fd |-> m.fds[j], uid |-> m.uids[j]]]

\* lines 612-691: the control connection of the successor is readable in its
\* event loop: a "desc" message, "exit", or the end of the stream
SuccRead ==
    /\ succ.pc = "client" /\ succ.conn_open
    /\ \/ /\ succ.inbox # << >>
          /\ \E m \in {Head(succ.inbox)} :
                succ' = IF m.type = "desc"
                        THEN [succ EXCEPT !.inbox = Tail(@),
                                          !.heard = Append(@, m),
                                          !.inherited = @ \o Inherited(m),
                                          !.total_sockets = @ + Len(m.uids)]
                        ELSE IF m.type = "exit"
                        THEN [succ EXCEPT !.inbox = Tail(@),
                                          !.heard = Append(@, m),
                                          !.conn_open = FALSE, !.pc = "listen"]
                        ELSE [succ EXCEPT !.inbox = Tail(@),
                                          !.heard = Append(@, m)]
       \/ /\ succ.inbox = << >> /\ pc = "exited"
          /\ succ' = [succ EXCEPT !.conn_open = FALSE]
    /\ UNCHANGED Old

\* the successor is killed
SuccDies ==
    /\ succ.pc \in {"wait", "shake", "client"}
    /\ succ.conn_open
    /\ succ' = [succ EXCEPT !.pc = "aborted", !.conn_open = FALSE,
                            !.servers_open = FALSE]
    /\ UNCHANGED Old

InitHandoff ==
    /\ ctx = [c \in 1..NConn |-> NoCtx]
    /\ peer_sockets = {}
    /\ total_sockets = NumServers
    /\ decay_mode = FALSE
    /\ got_sigusr1 = FALSE
    /\ servers_open = TRUE
    /\ server_closes = 0
    /\ ctrl_registered = TRUE
    /\ ctrl_conn_open = FALSE
    /\ pc = "run"
    /\ pending = [c \in 1..NConn |-> << >>]
    /\ sent = [c \in 1..NConn |-> << >>]
    /\ nsent = 0
    /\ emitted = [c \in 1..NConn |-> << >>]
    /\ ev = Event("init", NULL, 0, 0, St)
    /\ nsignals = 0
    /\ nctrl = 0
    /\ asked = FALSE
    /\ succ = [NoSucc EXCEPT !.pc = "start"]

NextHandoff ==
    \/ \E c \in Conn : Accept(c)
    \/ \E c \in Conn : \E f \in Frames : PeerSend(c, f, MaxSent)
    \/ \E c \in Conn : \E n \in {0, 3, Len(pending[c])} : PeerRead(c, n, FALSE)
    \/ LoopExit
    \/ CtrlAccept
    \/ \E msg \in {"unlisten", "eof"} : CtrlRead(msg)
    \/ SuccStart
    \/ SuccShake
    \/ SuccListen
    \/ SuccRead
    \/ SuccDies

SpecHandoff == InitHandoff /\ [][NextHandoff]_vars

(***************************************************************************)
(* Peers that write at the same time: a connection may be written to while *)
(* others hold unread bytes or partial frames.  The payload of a message   *)
(* is one byte, the place of the frame among those its connection has      *)
(* written.                                                                *)
(***************************************************************************)
PeerWriteNumbered(c, f) ==
    /\ pc = "run"
    /\ ctx[c].alloc = "live" /\ ctx[c].fd_open
    /\ nsent < MaxOrder
    /\ IF sent[c] = << >> THEN f = AnnounceFrame(c)
       ELSE \E p \in Ports, u \in UIDs : f = MsgFrame(p, u, << Len(sent[c]) + 1 >>)
    /\ sent' = [sent EXCEPT ![c] = Append(@, f)]
    /\ pending' = [pending EXCEPT ![c] = @ \o f]
    /\ nsent' = nsent + 1
    /\ Quiet

OrderFrames ==
    Announces \cup {MsgFrame(p, u, << k >>) : p \in Ports, u \in UIDs, k \in 1..MaxOrder}

InitOrder == InitOf(1..NOrder)

NextOrder ==
    \/ \E c \in Conn : Accept(c)
    \/ \E c \in Conn : \E f \in OrderFrames : PeerWriteNumbered(c, f)
    \/ \E c \in Conn : \E n \in {3, Len(pending[c])} \cap (1..Len(pending[c])) :
          PeerRead(c, n, TRUE)

SpecOrder == InitOrder /\ [][NextOrder]_vars

(***************************************************************************)
(* Peers that write size fields of any sign: besides the frames of Spec,   *)
(* a first frame whose size field holds -8 or -4.                          *)
(***************************************************************************)
BackSizes == {0 - 8, 0 - 4}
BackFrames == {htonl(z) \o htons(u) : z \in BackSizes, u \in UIDs}

\* a peer writes frame f on its connection c once the proxy has read all
\* that was written before: an announce or a frame of BackFrames first, then
\* messages
PeerSendBytes(c, f) ==
    /\ pc = "run"
    /\ ctx[c].alloc = "live" /\ ctx[c].fd_open
    /\ \A d \in DOMAIN pending : pending[d] = << >>
    /\ ctx[c].buf = << >>
    /\ IF ctx[c].faf_uid = NoUid THEN f \in Announces \cup BackFrames
                                 ELSE f \in Messages
    /\ nsent < MaxBytesSent
    /\ pending' = [pending EXCEPT ![c] = f]
    /\ nsent' = nsent + 1
    /\ UNCHANGED sent
    /\ Quiet

InitBytes == InitOf(1..NBytes)

NextBytes ==
    \/ \E c \in Conn : Accept(c)
    \/ \E c \in Conn : \E f \in Announces \cup Messages \cup BackFrames :
          PeerSendBytes(c, f)
    \/ \E c \in Conn : \E n \in {0, 4, Len(pending[c])} : PeerRead(c, n, FALSE)

SpecBytes == InitBytes /\ [][NextBytes]_vars

(***************************************************************************)
(* SpecCache: MAX_PEERS + 2 peers have connected and announced the uids    *)
(* 1, 2, ...; the last of them, Src, sends one message to each of the      *)
(* others in turn, while the first NBack of those may send one message,    *)
(* to Src or to themselves, and may close.                                 *)
(***************************************************************************)
Targets == MAX_PEERS + 1
Src == Targets + 1

\* the state after Src accepts and announces: allocate_fdctx and lines
\* 701-706 for each, then lines 785-792 with uid c on connection c
InitCache ==
    /\ ctx = [c \in 1..Src |-> [NewCtx EXCEPT !.faf_uid = c]]
    /\ peer_sockets = 1..Src
    /\ total_sockets = NumServers + Src
    /\ decay_mode = FALSE
    /\ got_sigusr1 = FALSE
    /\ servers_open = TRUE
    /\ server_closes = 0
    /\ ctrl_registered = TRUE
    /\ ctrl_conn_open = FALSE
    /\ pc = "run"
    /\ pending = [c \in 1..Src |-> << >>]
    /\ sent = [c \in 1..Src |-> << >>]
    /\ nsent = 0
    /\ emitted = [c \in 1..Src |-> << >>]
    /\ ev = Event("init", NULL, 0, 0, St)
    /\ nsignals = 0
    /\ nctrl = 0
    /\ asked = FALSE
    /\ succ = NoSucc

\* the peer of connection c writes a message to uid u once the proxy has
\* read all that was written before
CacheSend(c, u) ==
    /\ pc = "run"
    /\ ctx[c].alloc = "live" /\ ctx[c].fd_open
    /\ \A d \in DOMAIN pending : pending[d] = << >>
    /\ \/ c = Src /\ u = Len(sent[c]) + 1 /\ u <= Targets
       \/ c <= NBack /\ u \in {Src, c} /\ sent[c] = << >>
    /\ \E p \in Ports, pl \in Payloads :
          /\ pending' = [pending EXCEPT ![c] = MsgFrame(p, u, pl)]
          /\ sent' = [sent EXCEPT ![c] = Append(@, MsgFrame(p, u, pl))]
    /\ nsent' = nsent + 1
    /\ Quiet

NextCache ==
    \/ \E c \in Conn : \E u \in 1..Src : CacheSend(c, u)
    \/ \E c \in Conn : \E n \in {0, Len(pending[c])} :
          /\ pending[c] = << >> => c <= NBack
          /\ PeerRead(c, n, FALSE)

SpecCache == InitCache /\ [][NextCache]_vars

(***************************************************************************)
(* SpecRefs takes up where Src has sent its message to each of the other   *)
(* peers and the proxy has forwarded them all.  Src goes on to send to the *)
(* uids of the first NBack peers; those send to Src or to themselves, or   *)
(* send a header that is too big; all of these may close, and a successor  *)
(* may connect to the control socket and ask for the handoff.              *)
(***************************************************************************)
\* the cache of Src after its sends to 1..Targets: Targets, ..., 2
FullCache == [i \in 1..MAX_PEERS |-> Targets + 1 - i]

\* the records then: those of the peers in the cache of Src are counted twice
FullCtx ==
    [c \in 1..Src |->
        [NewCtx EXCEPT !.faf_uid = c,
                       !.refcount = IF c \in 2..Targets THEN 2 ELSE 1,
                       !.peers = IF c = Src THEN FullCache ELSE << >>]]

InitRefs ==
    /\ ctx = FullCtx
    /\ peer_sockets = 1..Src
    /\ total_sockets = NumServers + Src
    /\ decay_mode = FALSE
    /\ got_sigusr1 = FALSE
    /\ servers_open = TRUE
    /\ server_closes = 0
    /\ ctrl_registered = TRUE
    /\ ctrl_conn_open = FALSE
    /\ pc = "run"
    /\ pending = [c \in 1..Src |-> << >>]
    /\ sent = [c \in 1..Src |-> << >>]
    /\ nsent = 0
    /\ emitted = [c \in 1..Src |-> << >>]
    /\ ev = Event("init", NULL, 0, 0, St)
    /\ nsignals = 0
    /\ nctrl = 0
    /\ asked = FALSE
    /\ succ = NoSucc

\* the peer of connection c writes frame f once the proxy has read all that
\* was written before
RefsSend(c, f) ==
    /\ pc = "run"
    /\ ctx[c].alloc = "live" /\ ctx[c].fd_open
    /\ \A d \in DOMAIN pending : pending[d] = << >>
    /\ ctx[c].buf = << >>
    /\ nsent < MaxRefsSent
    /\ \/ /\ c = Src
          /\ \E p \in Ports, pl \in Payloads, u \in 1..NBack : f = MsgFrame(p, u, pl)
       \/ /\ c <= NBack
          /\ \/ \E p \in Ports, pl \in Payloads, u \in {Src, c} : f = MsgFrame(p, u, pl)
             \/ f = htonl(FDCTX_CLIENT_BUFSIZE + 1)
    /\ pending' = [pending EXCEPT ![c] = f]
    /\ nsent' = nsent + 1
    /\ UNCHANGED sent
    /\ Quiet

RefsFrames ==
    {MsgFrame(p, u, pl) : p \in Ports, u \in 1..Src, pl \in Payloads}
        \cup {htonl(FDCTX_CLIENT_BUFSIZE + 1)}

NextRefs ==
    \/ \E c \in Conn : \E f \in RefsFrames : RefsSend(c, f)
    \/ \E c \in Conn : \E n \in {0, Len(pending[c])} :
          /\ pending[c] = << >> => c <= NBack \/ c = Src
          /\ PeerRead(c, n, FALSE)
    \/ CtrlAccept
    \/ \E msg \in {"unlisten", "eof"} : CtrlRead(msg)

SpecRefs == InitRefs /\ [][NextRefs]_vars

(***************************************************************************)
(* Framing and routing, under SpecStream.                                  *)
(***************************************************************************)
\* the handler run on connection c as accept left it, with all the bytes its
\* peer has written arriving in one read
OneRead(c) ==
    peer_event([St EXCEPT !.ctx[c] = NewCtx, !.peer_sockets = @ \ {c}],
               c, Concat(sent[c]), FALSE, NULL)

\* C1: frame boundary law.  Once the router has read all the bytes that the
\* peer of a connection has written, in whatever chunks the reads returned
\* them, the frames it has written for that connection are those, in the
\* same order and to the same destinations, that it writes when the bytes
\* arrive in a single read.
FrameBoundaryLaw ==
    \A c \in Conn :
        ctx[c].alloc = "live" /\ pending[c] = << >>
        => emitted[c] = Emit([d \in Conn |-> << >>], OneRead(c).wlog)[c]

\* a read of one byte completes a frame that earlier reads left partial in
\* the buffer, the second frame at least that the connection has forwarded
FrameBoundaryWitness ==
    /\ ev.op = "read" /\ ev.n = 1 /\ ev.pre_len > 0
    /\ Len(ev.wlog) = 1
    /\ pending[ev.c] = << >>
    /\ Len(emitted[ev.c]) >= 2
    /\ Len(sent[ev.c]) >= 3

\* C2: header rewrite law.  Every frame of size >= 4 that the last handler
\* run has forwarded was written as the 4-byte big-endian size - 2, the two
\* port bytes as they came and the size - 4 payload bytes as they came:
\* size + 2 bytes, the destuid not among them.
HeaderRewriteLaw ==
    \A i \in 1..Len(ev.wlog) :
        \A size \in {ntohl(ev.wlog[i].in, 0)} :
            size >= 4
            => /\ ev.wlog[i].out = htonl(size - 2) \o Slice(ev.wlog[i].in, 4, 2)
                                       \o Slice(ev.wlog[i].in, 8, size - 4)
               /\ Len(ev.wlog[i].out) = size + 2

\* a frame with a payload has been forwarded
HeaderRewriteWitness ==
    \E i \in 1..Len(ev.wlog) :
        /\ ntohl(ev.wlog[i].in, 0) > 4
        /\ Len(ev.wlog[i].in) = ntohl(ev.wlog[i].in, 0) + 4

\* the frame that entry f of the frame log stands for is addressed to a uid
\* that neither the cache of its source, as the frame found it, nor
\* peer_sockets holds
Unroutable(f) ==
    /\ f.kind \in {"fwd", "drop"}
    /\ index_find(St, f.uid) = NULL
    /\ \A i \in 1..Len(f.pre.peers) : ctx[f.pre.peers[i]].faf_uid # f.uid

\* C3: unknown-destination routing.  A frame to a uid found neither in the
\* cache of its source nor in peer_sockets causes no write and leaves the
\* source open with its uid, refcount and cache as they were, and the next
\* header is taken right behind the frame.
UnknownDestinationDropped ==
    \A i \in 1..Len(ev.flog) :
        Unroutable(ev.flog[i])
        => /\ ev.flog[i].kind = "drop"
           /\ ev.flog[i].post = ev.flog[i].pre
           /\ ev.flog[i].post.fd_open
           /\ IF i < Len(ev.flog)
              THEN ev.flog[i + 1].head = ev.flog[i].head + ev.flog[i].size + 4
              ELSE ev.end = ev.flog[i].head + ev.flog[i].size + 4

\* a frame to a uid nobody holds was dropped and the frame behind it, taken
\* in the same run, forwarded
UnknownDestinationWitness ==
    \E i \in 1..Len(ev.flog) :
        /\ Unroutable(ev.flog[i])
        /\ i < Len(ev.flog)
        /\ ev.flog[i + 1].kind = "fwd"

(***************************************************************************)
(* Closes and the UID index, under SpecRoute.                              *)
(***************************************************************************)
\* the parser has, in the last handler run, decoded on connection ev.c a
\* header whose size + 4 exceeds the capacity of the buffer: it has taken
\* the too-big path, or has stopped at that header, which compaction has
\* left at the front of the buffer
OversizeDecoded ==
    /\ ev.op = "read"
    /\ \/ \E i \in 1..Len(ev.flog) : ev.flog[i].kind = "toobig"
       \/ /\ ctx[ev.c].alloc = "live" /\ ctx[ev.c].fd_open
          /\ Len(ctx[ev.c].buf) >= 4
          /\ ntohl(ctx[ev.c].buf, 0) + 4 > FDCTX_CLIENT_BUFSIZE

\* C4: oversize frame.  A handler run that decodes a header with
\* size + 4 > capacity closes the socket of that peer and takes its uid out
\* of peer_sockets, and no other connection changes its open/closed status,
\* its uid or its membership of peer_sockets.
OversizeFrameFatal ==
    [][OversizeDecoded'
       => /\ ~ctx'[ev'.c].fd_open
          /\ ev'.c \notin peer_sockets'
          /\ \A d \in Conn \ {ev'.c} :
                /\ ctx'[d].fd_open = ctx[d].fd_open
                /\ ctx'[d].faf_uid = ctx[d].faf_uid
                /\ (d \in peer_sockets') = (d \in peer_sockets)]_vars

\* C5: UID index invariant.  While the instance does not decay, a lookup of
\* the uid of any open peer connection that has one yields that connection.
UidIndexInvariant ==
    ~decay_mode
    => \A c \in Conn :
          ctx[c].alloc = "live" /\ ctx[c].fd_open /\ ctx[c].faf_uid # NoUid
          => index_find(St, ctx[c].faf_uid) = c

\* the step is the handler run in which connection b announces uid U while
\* peer_sockets maps U to the open connection a
DuplicateAnnounce(a, b, U) ==
    /\ a # b
    /\ ctx[a].alloc = "live" /\ ctx[a].fd_open
    /\ index_find(St, U) = a
    /\ ctx[b].faf_uid = NoUid
    /\ ev'.op = "read" /\ ev'.c = b
    /\ Len(ev'.flog) >= 1
    /\ ev'.flog[1].kind = "uid" /\ ev'.flog[1].uid = U

\* C6: duplicate UID announcement.  When b announces a uid U that
\* peer_sockets maps to another open connection a, peer_sockets maps U to b
\* afterwards, and a stays open and is not what a lookup of U finds.
DuplicateAnnounceReplaces ==
    [][\A a \in Conn, b \in Conn, U \in UIDs :
          DuplicateAnnounce(a, b, U)
          => /\ index_find([ctx |-> ctx', peer_sockets |-> peer_sockets'], U) = b
             /\ ctx'[a].fd_open]_vars

\* the last handler run has looked a destination up in the cache of c
Accessed(c) ==
    /\ ev.op = "read" /\ ev.c = c
    /\ \E i \in 1..Len(ev.flog) : ev.flog[i].kind \in {"fwd", "drop"}

\* C8: cache coherence.  Every entry p of the cache of a connection c has a
\* uid that peer_sockets maps to p, or it is a tombstone (closed, uid unset)
\* that the cache of c holds only until that cache is accessed again.
CacheCoherence ==
    \A c \in Conn :
        ctx[c].alloc = "live"
        => \A i \in 1..Len(ctx[c].peers) :
              \A p \in {ctx[c].peers[i]} :
                 \/ /\ ctx[p].faf_uid # NoUid
                    /\ index_find(St, ctx[p].faf_uid) = p
                 \/ /\ ctx[p].faf_uid = NoUid
                    /\ ~ctx[p].fd_open
                    /\ ~Accessed(c)

(***************************************************************************)
(* The peer cache, under SpecCache.                                        *)
(***************************************************************************)
\* seq without its entry at index k
Without(seq, k) == SubSeq(seq, 1, k - 1) \o SubSeq(seq, k + 1, Len(seq))

\* what a step does to the cache of connection c: nothing, or an add at
\* position 0 that moves the entries back by one and, when the cache is
\* full, puts the last one out and takes 1 off its refcount, or the remove
\* of one entry
CacheStep(c) ==
    \/ ctx'[c].peers = ctx[c].peers
    \/ /\ Len(ctx[c].peers) < MAX_PEERS
       /\ \E p \in Conn : ctx'[c].peers = << p >> \o ctx[c].peers
    \/ /\ Len(ctx[c].peers) = MAX_PEERS
       /\ \E p \in Conn :
             ctx'[c].peers = << p >> \o SubSeq(ctx[c].peers, 1, MAX_PEERS - 1)
       /\ ctx'[ctx[c].peers[MAX_PEERS]].refcount
             = ctx[ctx[c].peers[MAX_PEERS]].refcount - 1
    \/ \E k \in 1..Len(ctx[c].peers) : ctx'[c].peers = Without(ctx[c].peers, k)

\* Src has sent its message to each of the uids 1..Targets, the proxy has
\* read them all, and every peer is still connected
AllSent ==
    /\ Len(sent[Src]) = Targets
    /\ pending[Src] = << >>
    /\ \A c \in Conn : ctx[c].alloc = "live" /\ ctx[c].fd_open

\* C7: bounded cache.  A cache never holds more than MAX_PEERS entries; a
\* step changes it by an add at position 0, which on a full cache puts out
\* exactly the last entry and takes 1 off that entry's refcount while the
\* other entries move back by one in their order, or by the remove of one
\* entry; and once Src has sent one message to each of the live uids
\* 1..Targets its cache is Targets, Targets - 1, ..., 2.
BoundedCache ==
    [][/\ \A c \in Conn :
            /\ Len(ctx'[c].peers) <= MAX_PEERS
            /\ ctx'[c].alloc = "live" => CacheStep(c)
       /\ AllSent' => ctx'[Src].peers = FullCache]_vars

\* the message to uid Targets has been forwarded: it found the cache full and
\* put out the entry of uid 1, whose refcount is 1 again
BoundedCacheWitness ==
    /\ AllSent
    /\ ev.op = "read" /\ ev.c = Src
    /\ Len(ev.flog) = 1
    /\ ev.flog[1].kind = "fwd" /\ ev.flog[1].uid = Targets
    /\ Len(ev.flog[1].pre.peers) = MAX_PEERS
    /\ ev.flog[1].pre.peers[MAX_PEERS] = 1
    /\ ctx[Src].peers = FullCache
    /\ ctx[1].refcount = 1
    /\ ctx = FullCtx
    /\ peer_sockets = 1..Src
    /\ total_sockets = NumServers + Src

(***************************************************************************)
(* Reference counts, under SpecRefs.                                       *)
(***************************************************************************)
\* the entries of the caches of existing records that point to record c
CacheRefs(c) ==
    Cardinality({di \in UNION {{<< d, i >> : i \in 1..Len(ctx[d].peers)} :
                                  d \in {x \in Conn : ctx[x].alloc = "live"}} :
                    ctx[di[1]].peers[di[2]] = c})

\* a record that was allocated and freed, or not freed, as its refcount and
\* the count own of its fd say
Counted(c, own) ==
    /\ ctx[c].alloc = "live"
       => /\ ctx[c].refcount = CacheRefs(c) + own
          /\ ctx[c].refcount > 0
          /\ ctx[c].nfree = 0
    /\ ctx[c].alloc = "freed"
       => /\ ctx[c].refcount = 0
          /\ ctx[c].nfree = 1
          /\ CacheRefs(c) = 0
          /\ ~ctx[c].fd_open

DecayKeptListenerBack ==
    [][decay_mode
       => /\ decay_mode'
          /\ ~servers_open'
          /\ ev'.wlog = << >>
          /\ ctrl_conn_open /\ ~ctrl_conn_open' => ctrl_registered']_vars

\* a decaying instance whose control peer has gone, with ctrl_socket
\* registered again, has taken a message off a peer connection without
\* forwarding it
DecayWitness ==
    /\ decay_mode /\ ~servers_open
    /\ ctrl_registered /\ ~ctrl_conn_open
    /\ ev.op = "read"
    /\ \E i \in 1..Len(ev.flog) : ev.flog[i].kind = "decay"

\* C10: decay monotonicity.  Once decay_mode is set, no handler run writes
\* a frame to a peer, the TCP listeners are not reopened and ctrl_socket is
\* not registered for accepting again.
DecayMonotone ==
    [][decay_mode
       => /\ decay_mode'
          /\ ~servers_open'
          /\ ev'.wlog = << >>
          /\ ~ctrl_registered']_vars

(***************************************************************************)
(* The handoff messages, under Spec.                                       *)
(***************************************************************************)
\* C11: "desc" well-formedness.  Every "desc" message of the last handler
\* run carries at most MAX_DESC_PER_MESSAGE fds and as many ints, and the
\* int at each position is the faf_uid of the record whose fd is at that
\* position.
DescWellFormed ==
    \A i \in 1..Len(ev.clog) :
        ev.clog[i].type = "desc"
        => /\ Len(ev.clog[i].fds) <= MAX_DESC_PER_MESSAGE
           /\ Len(ev.clog[i].uids) = Len(ev.clog[i].fds)
           /\ \A j \in 1..Len(ev.clog[i].fds) :
                 ev.clog[i].uids[j] = ctx[ev.clog[i].fds[j]].faf_uid

\* a peer connection that is open in this instance
OpenHere(c) == ctx[c].alloc = "live" /\ ctx[c].fd_open

\* C12: decay completion.  A decaying instance leaves its loop, writes
\* "exit" and terminates only when none of its peer connections is still
\* open locally.
DecayExitsDrained ==
    (pc = "exited" /\ decay_mode) => \A c \in Conn : ~OpenHere(c)

\* C14: stop-listening signal.  After a loop round has handled SIGUSR1 in
\* an instance that is not decaying, however often the signal came before,
\* the TCP listeners are closed and the loop goes on (total_sockets is not
\* 0) as long as a peer connection is open.
StopListeningKeepsServing ==
    (ev.op = "sigusr1" /\ ~decay_mode)
    => /\ ~servers_open
       /\ (\E c \in Conn : OpenHere(c)) => total_sockets # 0

\* C18: idle-only transfer.  Every fd a "desc" message of the last handler
\* run carries, bulk or single, belongs to a connection whose buffer is
\* empty, and a connection that has been handed over left no bytes behind
\* in its buffer.
IdleOnlyTransfer ==
    /\ \A i \in 1..Len(ev.clog) :
          ev.clog[i].type = "desc"
          => \A j \in 1..Len(ev.clog[i].fds) :
                 Len(ctx[ev.clog[i].fds[j]].buf) = 0
    /\ \A c \in Conn : ctx[c].handed => Len(ctx[c].buf) = 0

\* a connection that held a partial frame when the instance began to decay
\* is read to the end of the frame and then handed over by a single send
IdleOnlyWitness ==
    /\ ev.op = "read" /\ decay_mode /\ ev.pre_len > 0 /\ ev.n > 0
    /\ Len(ev.clog) = 1 /\ ev.clog[1].type = "desc"
    /\ ev.clog[1].fds = << ev.c >> /\ ev.clog[1].ok
    /\ ctx[ev.c].handed /\ ~ctx[ev.c].fd_open

\* the "desc" messages of the last handler run that carry the fd of c
Carrying(c) ==
    {i \in 1..Len(ev.clog) :
        /\ ev.clog[i].type = "desc"
        /\ \E j \in 1..Len(ev.clog[i].fds) : ev.clog[i].fds[j] = c}

\* C19: bulk drain.  When the "unlisten" handler has written "unlistening"
\* and every sendmsg of its bulk send succeeded, every identified
\* connection with an empty buffer has been sent in exactly one "desc"
\* message, is out of the UID index and is closed here, and every
\* identified connection with bytes in its buffer is still open and has
\* not been sent.
BulkDrain ==
    (/\ ev.op = "unlisten" /\ Len(ev.clog) > 0
     /\ \A i \in 1..Len(ev.clog) : ev.clog[i].ok)
    => \A c \in Conn :
         (ctx[c].alloc = "live" /\ ctx[c].faf_uid # NoUid)
         => IF Len(ctx[c].buf) = 0
            THEN /\ Cardinality(Carrying(c)) = 1
                 /\ c \notin peer_sockets
                 /\ ctx[c].handed /\ ~ctx[c].fd_open
            ELSE /\ Carrying(c) = {}
                 /\ ~ctx[c].handed /\ ctx[c].fd_open

\* C20: a failed transfer leaves the connection untouched.  In every step,
\* a connection whose fd is in a "desc" message whose sendmsg failed still
\* has its fd open afterwards, and is still in the UID index if it was there
\* before the step.
FailedTransferUntouched ==
    [][\A i \in 1..Len(ev'.clog) :
          (ev'.clog[i].type = "desc" /\ ~ev'.clog[i].ok)
          => \A j \in 1..Len(ev'.clog[i].fds) :
                /\ ctx'[ev'.clog[i].fds[j]].fd_open
                /\ ev'.clog[i].fds[j] \in peer_sockets
                   => ev'.clog[i].fds[j] \in peer_sockets']_vars

(***************************************************************************)
(* The buffer, under SpecBytes.                                            *)
(***************************************************************************)
\* C16: buffer bound.  After any read, whatever the size fields received,
\* every buffer holds at most FDCTX_CLIENT_BUFSIZE bytes, and the parse
\* position the loop took after each frame of the read lies within the
\* bytes the buffer held: 0 <= head + size + 4 <= buf_len.
BufferBound ==
    /\ \A c \in Conn : Len(ctx[c].buf) <= FDCTX_CLIENT_BUFSIZE
    /\ ev.op = "read"
       => \A i \in 1..Len(ev.flog) :
             ev.flog[i].kind \in {"uid", "fwd", "drop", "decay", "back"}
             => /\ 0 <= ev.flog[i].head + ev.flog[i].size + 4
                /\ ev.flog[i].head + ev.flog[i].size + 4 <= ev.pre_len + ev.n

(***************************************************************************)
(* The order of the writes, under SpecOrder.                               *)
(***************************************************************************)
\* the place, among the frames its source has written, of the frame that
\* write w has forwarded: its payload byte
SeqNo(w) == w.out[Len(w.out)]

\* frame f as line 826 writes it: the size less 2, the port, the payload
Rewritten(f) ==
    htonl(ntohl(f, 0) - 2) \o Slice(f, 4, 2) \o Slice(f, 8, ntohl(f, 0) - 4)

\* C15: per-source ordering.  Whatever the interleaving of the reads, every
\* write the router has made for a source S is the rewritten form of a frame
\* S has written, made to the connection that holds the frame's destuid; two
\* writes of S to the same destination are in the order in which S wrote
\* their frames; and within a handler run each forwarded frame has its write
\* made before the next frame is parsed.
OrderLaw ==
    /\ \A S \in Conn :
          /\ \A i \in 1..Len(emitted[S]) :
                /\ SeqNo(emitted[S][i]) \in 2..Len(sent[S])
                /\ emitted[S][i].out = Rewritten(sent[S][SeqNo(emitted[S][i])])
                /\ emitted[S][i].dst = ntohs(sent[S][SeqNo(emitted[S][i])], 6)
          /\ \A i, j \in 1..Len(emitted[S]) :
                (i < j /\ emitted[S][i].dst = emitted[S][j].dst)
                => SeqNo(emitted[S][i]) < SeqNo(emitted[S][j])
    /\ \A i \in 1..Len(ev.flog) :
          /\ ev.flog[i].kind = "fwd"
             => ev.flog[i].post.writes = ev.flog[i].pre.writes + 1
          /\ i > 1 => /\ ev.flog[i - 1].head < ev.flog[i].head
                      /\ ev.flog[i].pre.writes = ev.flog[i - 1].post.writes

\* one read has forwarded two frames of a source to the same destination
\* while the destination itself holds a partial frame and has bytes unread
OrderWitness ==
    /\ ev.op = "read" /\ Len(ev.wlog) = 2
    /\ ev.wlog[1].dst = ev.wlog[2].dst /\ ev.wlog[1].dst # ev.c
    /\ ctx[ev.wlog[1].dst].buf # << >>
    /\ pending[ev.wlog[1].dst] # << >>
    /\ Len(emitted[ev.c]) >= 2

(***************************************************************************)
(* The handoff, under SpecHandoff.                                         *)
(***************************************************************************)
\* the messages this instance has sent on the control connection, in order
FromOld == succ.heard \o succ.inbox

NoDeadWrite ==
    /\ \A i \in 1..Len(ev.wlog) :
          ev.wlog[i].dst_open /\ ev.wlog[i].dst_alloc = "live"
    /\ ~decay_mode
       => \A c \in Conn :
            ctx[c].alloc = "live"
            => \A k \in 1..Len(ctx[c].peers) :
                  ctx[ctx[c].peers[k]].faf_uid # NoUid
                  => /\ ctx[ctx[c].peers[k]].alloc = "live"
                     /\ ctx[ctx[c].peers[k]].fd_open

\* a connection whose cache still holds a closed connection has sent a
\* frame to a uid that no open connection holds, and the frame is dropped
DeadWitness ==
    /\ ev.op = "read" /\ ev.wlog = << >>
    /\ ctx[ev.c].alloc = "live"
    /\ \E k \in 1..Len(ctx[ev.c].peers) : ~ctx[ctx[ev.c].peers[k]].fd_open
    /\ \E i \in 1..Len(ev.flog) :
          /\ ev.flog[i].kind = "drop"
          /\ \A d \in Conn : OpenHere(d) => ctx[d].faf_uid # ev.flog[i].uid

(***************************************************************************)
(* The socket counter, under Spec.                                         *)
(***************************************************************************)
\* total_sockets is the number of open TCP listeners plus the number of
\* peer connections that are open in this instance
SocketsOpen ==
    total_sockets = (IF servers_open THEN NumServers ELSE 0)
                    + Cardinality({c \in Conn : OpenHere(c)})

\* C22: socket counter invariant.  The counter is right at the start
\* (line 519), and a loop round that starts with the counter right and not
\* 0, so that the loop goes on, leaves it right for the next round:
\* whatever the round handles, an accept, a close, an oversize close, a
\* stop-listening signal, an "unlisten" command or a transfer.
SocketCount ==
    [][(pc = "run" /\ total_sockets # 0 /\ SocketsOpen /\ pc' = "run")
       => SocketsOpen']_vars

(***************************************************************************)
(* The progress of the frame loop, under SpecBytes.                        *)
(***************************************************************************)
\* C23: parser progress.  The handling of a read ends, the loop never
\* stays in the frame loop for good; and every round of the frame loop
\* that went on to a next round, after a frame that was announced,
\* forwarded, dropped or stepped over, moved the parse position forward by
\* at least 4 bytes, whatever the size field held.
ParserProgress ==
    /\ pc # "hung"
    /\ ev.op = "read"
       => \A i \in 1..Len(ev.flog) :
             ev.flog[i].kind \in {"uid", "fwd", "drop", "decay", "back"}
             => ev.flog[i].size + 4 >= 4

====
